---- MODULE Spec2Model ----
(***************************************************************************)
(* Water-table-fluctuation recharge estimation (package gwtf): the Model   *)
(* class (src/gwtf/model.py) and the Master Recession Curve class MCR      *)
(* (src/gwtf/mcr.py).  Every call of either class is one action; `ret`     *)
(* records the call made last, its arguments and what it returned or       *)
(* raised.                                                                 *)
(*                                                                         *)
(* Numbers.  Water-table elevations and timestamps of the input series are *)
(* integers (timestamps count days).  Every quantity the program computes  *)
(* in floating point is an exact fraction <<n, d>> in lowest terms with    *)
(* d > 0, so that products, quotients and sums are the real-number results *)
(* of the program's expressions.                                           *)
(***************************************************************************)
EXTENDS Integers, Sequences, FiniteSets, TLC

\* ------------------------------------------------------------------ bounds
\* Longest input series (number of samples).
MaxLen == 3
\* Elevations are drawn from 0..MaxH.
MaxH == 2
\* Consecutive samples are 1..MaxGap days apart.
MaxGap == 2

\* ------------------------------------------------------- program constants
\* 3600 * 24: seconds in a day, the divisor of total_seconds() in get_dhdt.
SecondsPerDay == 86400
\* MCR.nparam: the number of parameters curve_fit estimates (a and b).
NParam == 2

\* Python's None (an absent argument, an attribute holding None).
None == <<>>

\* ---------------------------------------------------------------- fractions
Abs(x) == IF x < 0 THEN -x ELSE x

RECURSIVE GCD(_, _)
GCD(a, b) == IF b = 0 THEN a ELSE GCD(b, a % b)

\* The quotient n / d (d # 0) as a fraction in lowest terms.
Frac(n, d) ==
    LET s == IF d < 0 THEN -1 ELSE 1
        g == GCD(Abs(n), Abs(d))
    IN  <<(s * n) \div g, (s * d) \div g>>

F(n) == <<n, 1>>
FAdd(x, y) == Frac(x[1] * y[2] + y[1] * x[2], x[2] * y[2])
FNeg(x) == <<-x[1], x[2]>>
FSub(x, y) == FAdd(x, FNeg(y))
FMul(x, y) == Frac(x[1] * y[1], x[2] * y[2])
FDiv(x, y) == Frac(x[1] * y[2], x[2] * y[1])
FLt(x, y) == x[1] * y[2] < y[1] * x[2]
FLe(x, y) == x[1] * y[2] <= y[1] * x[2]

\* ----------------------------------------------------------- pandas helpers
Range(s) == {s[i] : i \in DOMAIN s}

RECURSIVE SumTo(_, _)
\* g[1] + ... + g[k]
SumTo(g, k) == IF k = 0 THEN 0 ELSE SumTo(g, k - 1) + g[k]

RECURSIVE FSum(_)
FSum(s) == IF s = <<>> THEN F(0) ELSE FAdd(s[1], FSum(Tail(s)))

\* wt[label]: the value of the sample whose timestamp is t.
ValueAt(wt, t) == wt[CHOOSE i \in DOMAIN wt : wt[i].t = t].h

\* wt.index.diff()[1:]: the time steps between consecutive samples.
IndexDiff(wt) == [i \in 1..(Len(wt) - 1) |-> wt[i + 1].t - wt[i].t]

\* wt.diff()[1:]: the changes between consecutive samples, indexed by the
\* timestamp of the later sample.
Diff(wt) == [i \in 1..(Len(wt) - 1) |-> [t |-> wt[i + 1].t, v |-> wt[i + 1].h - wt[i].h]]

\* Mutation of IntervalsOf: the left edge taken one day before the right edge
\* instead of one sampling step before it.
IntervalsOfUnitStep(dt, dh) == [i \in DOMAIN dh |-> [left |-> dh[i].t - 1, right |-> dh[i].t]]

\* IntervalIndex.from_arrays(left=dh.index - dt, right=dh.index): the
\* right-closed intervals (left, right].
IntervalsOf(dt, dh) == [i \in DOMAIN dh |-> [left |-> dh[i].t - dt[i], right |-> dh[i].t]]

\* Series(index=dtint, data=dh.values)
Changes(wt) ==
    LET dt == IndexDiff(wt)
        dh == Diff(wt)
        dtint == IntervalsOf(dt, dh)
    IN  [i \in DOMAIN dh |-> [iv |-> dtint[i], v |-> dh[i].v]]

IndexOf(s) == [i \in DOMAIN s |-> s[i].iv]

\* -------------------------------------------------------------- the inputs
\* Series as the validation step hands them over: non-empty, timestamps
\* strictly increasing (the first one is day 0), no missing values.
SeriesOfLen(n) ==
    {[i \in 1..n |-> [t |-> SumTo(g, i - 1), h |-> hs[i]]] :
        hs \in [1..n -> 0..MaxH], g \in [1..(n - 1) -> 1..MaxGap]}

AllSeries == UNION {SeriesOfLen(n) : n \in 1..MaxLen}

RiseRules == {"rises", "both", "falls"}

\* Values of the specific yield a caller passes: outside and inside [0, 1].
SyValues == {Frac(-1, 10), Frac(1, 2)}

\* ------------------------------------------------ Model: event selection
\* The outcome of a call: a value, or the exception it raised.
Ok(v) == [ok |-> TRUE, err |-> "", val |-> v]
Raise(e) == [ok |-> FALSE, err |-> e, val |-> None]

\* Mutation of RisingIntervals: steps without change count as rises (>= 0).
NonFallingIntervals(changes) == IndexOf(SelectSeq(changes, LAMBDA c : c.v >= 0))

\* changes[changes.values > 0].index
RisingIntervals(changes) == IndexOf(SelectSeq(changes, LAMBDA c : c.v > 0))

\* Mutation of GetRechargeEventIntervals: an empty selection is returned
\* instead of raising.
GetRechargeEventIntervalsUnchecked(wt, rise_rule) ==
    LET changes == Changes(wt)
    IN  IF rise_rule \notin {"both", "rises"}
        THEN Raise("ValueError: rise_rule should be 'both' or 'rises'.")
        ELSE Ok(IF rise_rule = "rises" THEN IndexOf(SelectSeq(changes, LAMBDA c : c.v > 0))
                ELSE IndexOf(changes))

\* Mutation of GetRechargeEventIntervals: only the selection of the rule
\* 'rises' is tested for emptiness.
GetRechargeEventIntervalsBothUnchecked(wt, rise_rule) ==
    LET changes == Changes(wt)
        events_int == IF rise_rule = "rises" THEN RisingIntervals(changes)
                      ELSE IndexOf(changes)
    IN  IF rise_rule \notin {"both", "rises"}
        THEN Raise("ValueError: rise_rule should be 'both' or 'rises'.")
        ELSE IF rise_rule = "rises" /\ events_int = <<>>
        THEN Raise("ValueError: No recharge events found.")
        ELSE Ok(events_int)

\* Mutation of GetRechargeEventIntervals: the rule is not tested, and a rule
\* other than 'rises' selects every interval.
GetRechargeEventIntervalsAnyRule(wt, rise_rule) ==
    LET changes == Changes(wt)
        events_int == IF rise_rule = "rises" THEN RisingIntervals(changes)
                      ELSE IndexOf(changes)
    IN  IF events_int = <<>>
        THEN Raise("ValueError: No recharge events found.")
        ELSE Ok(events_int)

\* Model.get_recharge_event_intervals: the value returned or the error.
GetRechargeEventIntervals(wt, rise_rule) ==
    LET changes == Changes(wt)
        events_int == IF rise_rule = "rises" THEN RisingIntervals(changes)
                      ELSE IndexOf(changes)
    IN  IF rise_rule \notin {"both", "rises"}
        THEN Raise("ValueError: rise_rule should be 'both' or 'rises'.")
        ELSE IF events_int = <<>>
        THEN Raise("ValueError: No recharge events found.")
        ELSE Ok(events_int)

\* ------------------------------------------------------------------- MCR
\* A float that is infinite (numpy inf), and the square root of a fraction
\* (kept symbolic: x ** 0.5 of a non-negative fraction x).
Inf == <<"inf">>
SqrtOf(x) == IF x = Inf THEN Inf ELSE <<"sqrt", x[1], x[2]>>

\* MCR.__init__: the parameter table, rows a and b as pairs.
McrInitialParameters ==
    [initial |-> <<F(0), F(0)>>,
     optimal |-> <<F(0), F(0)>>,
     stderr  |-> <<SqrtOf(F(0)), SqrtOf(F(0))>>]

\* wt.index.diff()[1:].total_seconds() / (3600 * 24): the steps in days.
DtInDays(wt) ==
    LET d == IndexDiff(wt)
    IN  [i \in DOMAIN d |-> Frac(d[i] * SecondsPerDay, SecondsPerDay)]

\* Mutation of NegativeRates: steps without change are kept (dhdt <= 0).
NonPositiveRates(dhdt) == SelectSeq(dhdt, LAMBDA r : FLe(r.v, F(0)))

\* dhdt[dhdt < 0]
NegativeRates(dhdt) == SelectSeq(dhdt, LAMBDA r : FLt(r.v, F(0)))

\* MCR.get_dhdt: the rates of change of the falling steps, indexed by the
\* timestamp of the later sample.
GetDhdt(wt) ==
    LET dt == DtInDays(wt)
        dh == Diff(wt)
        dhdt == [i \in DOMAIN dh |-> [t |-> dh[i].t, v |-> FDiv(F(dh[i].v), dt[i])]]
    IN  NegativeRates(dhdt)

\* Mutation of DhdtParameters: the defaults are read from the `initial`
\* column instead of the `optimal` one.
DhdtParametersInitial(parameters, a, b) ==
    IF a = None \/ b = None THEN parameters.initial ELSE <<a, b>>

\* Mutation of DhdtParameters: each of a and b that is missing is read from
\* the stored optimal values, and one that is supplied is used.
DhdtParametersEach(parameters, a, b) ==
    <<IF a = None THEN parameters.optimal[1] ELSE a,
      IF b = None THEN parameters.optimal[2] ELSE b>>

\* The pair (a, b) estimate_dhdt computes with.
DhdtParameters(parameters, a, b) ==
    IF a = None \/ b = None THEN parameters.optimal ELSE <<a, b>>

\* MCR.estimate_dhdt for one elevation h: -a * h + b.
EstimateDhdt(parameters, h, a, b) ==
    LET p == DhdtParameters(parameters, a, b)
    IN  FAdd(FMul(FNeg(p[1]), h), p[2])

\* The sum of squared residuals of the line y = -a * x + b.
SumSquares(xs, ys, a, b) ==
    FSum([i \in DOMAIN xs |->
            LET r == FSub(ys[i], FAdd(FMul(FNeg(a), xs[i]), b))
            IN  FMul(r, r)])

\* The values of a the optimizer may stop at when the data do not determine
\* the line (every x equal): the source does not say which minimiser the
\* optimizer returns.
UndeterminedA == {F(0), F(1)}

\* scipy.optimize.curve_fit(f=estimate_dhdt, xdata, ydata): the least-squares
\* (a, b) of y = -a * x + b with the covariance estimate's diagonal, or the
\* exception raised for fewer observations than parameters.  `outs` is the
\* set of results the call may return.
CurveFit(xs, ys) ==
    LET n   == Len(ys)
        sx  == FSum(xs)
        sy  == FSum(ys)
        sxx == FSum([i \in DOMAIN xs |-> FMul(xs[i], xs[i])])
        sxy == FSum([i \in DOMAIN xs |-> FMul(xs[i], ys[i])])
        det == FSub(FMul(F(n), sxx), FMul(sx, sx))
        \* slope m and intercept c of y = m * x + c; a = -m, b = c
        m   == FDiv(FSub(FMul(F(n), sxy), FMul(sx, sy)), det)
        c   == FDiv(FSub(sy, FMul(m, sx)), F(n))
        s2  == FDiv(SumSquares(xs, ys, FNeg(m), c), F(n - NParam))
    IN  IF n = 0
        THEN [ok |-> FALSE, err |-> "ValueError: ydata must not be empty!", outs |-> {}]
        ELSE IF n < NParam
        THEN [ok |-> FALSE, err |-> "TypeError: Improper input: N must not exceed M", outs |-> {}]
        ELSE IF det = F(0)
        THEN [ok |-> TRUE, err |-> "",
              outs |-> {[popt |-> <<a, FAdd(FDiv(sy, F(n)), FMul(a, xs[1]))>>,
                         pcov |-> <<Inf, Inf>>] : a \in UndeterminedA}]
        ELSE IF n = NParam
        THEN [ok |-> TRUE, err |-> "",
              outs |-> {[popt |-> <<FNeg(m), c>>, pcov |-> <<Inf, Inf>>]}]
        ELSE [ok |-> TRUE, err |-> "",
              outs |-> {[popt |-> <<FNeg(m), c>>,
                         pcov |-> <<FMul(s2, FDiv(F(n), det)), FMul(s2, FDiv(sxx, det))>>]}]

\* wt.loc[dhdt.index]: the elevations at the later sample of each falling step.
FitXData(wt, dhdt) == [i \in DOMAIN dhdt |-> F(ValueAt(wt, dhdt[i].t))]
FitYData(dhdt) == [i \in DOMAIN dhdt |-> dhdt[i].v]

\* Mutation of GetExtrapolated: the modelled rate is multiplied by the days
\* the event spans before it is added.
GetExtrapolatedTimesDays(parameters, wt, events) ==
    LET ab == parameters.optimal
    IN  [i \in DOMAIN events |->
            LET h == F(ValueAt(wt, events[i].left))
            IN  [t |-> events[i].left,
                 v |-> FAdd(h, FMul(F(events[i].right - events[i].left),
                                    EstimateDhdt(parameters, h, ab[1], ab[2])))]]

\* MCR.get_extrapolated (p = None): the elevation at each event's left edge
\* plus the modelled rate there.
GetExtrapolated(parameters, wt, events) ==
    LET ab == parameters.optimal
    IN  [i \in DOMAIN events |->
            LET h == F(ValueAt(wt, events[i].left))
            IN  [t |-> events[i].left,
                 v |-> FAdd(h, EstimateDhdt(parameters, h, ab[1], ab[2]))]]

\* wt[(wt.index >= tmin) & (wt.index <= tmax)] of Model.fit_mcr.
FitWindow(wt, tmin, tmax) ==
    LET lo == IF tmin = None THEN wt[1].t ELSE tmin[1]
        hi == IF tmax = None THEN wt[Len(wt)].t ELSE tmax[1]
    IN  SelectSeq(wt, LAMBDA s : s.t >= lo /\ s.t <= hi)

\* Mutation of WriteOptimal: the assignment stores the standard errors
\* together with the optimal values.
WriteOptimalAndStderr(parameters, popt, pcov) ==
    [parameters EXCEPT !.optimal = popt,
                       !.stderr = <<SqrtOf(pcov[1]), SqrtOf(pcov[2])>>]

\* self.parameters.optimal = popt
WriteOptimal(parameters, popt, pcov) == [parameters EXCEPT !.optimal = popt]

\* self.parameters.stderr = pcov.diagonal() ** 0.5
WriteStderr(parameters, popt, pcov) ==
    [parameters EXCEPT !.stderr = <<SqrtOf(pcov[1]), SqrtOf(pcov[2])>>]

\* Mutation of McrFitMcr: a fit that raises resets the parameter table to
\* the zeros of __init__.
McrFitMcrZeroOnFailure(parameters, wt) ==
    LET dhdt == GetDhdt(wt)
        cf   == CurveFit(FitXData(wt, dhdt), FitYData(dhdt))
    IN  IF ~cf.ok
        THEN {[ok |-> FALSE, err |-> cf.err, parameters |-> McrInitialParameters,
               dhdt |-> dhdt]}
        ELSE {[ok |-> TRUE, err |-> "", dhdt |-> dhdt,
               parameters |-> [parameters EXCEPT
                                 !.optimal = o.popt,
                                 !.stderr = <<SqrtOf(o.pcov[1]), SqrtOf(o.pcov[2])>>]]
              : o \in cf.outs}

\* MCR.fit_mcr(wt): the states the call may leave the MCR in.  self.dhdt is
\* assigned before curve_fit runs, so it is replaced also when the fit raises;
\* optimal and stderr are assigned only after curve_fit has returned.
McrFitMcr(parameters, wt) ==
    LET dhdt == GetDhdt(wt)
        cf   == CurveFit(FitXData(wt, dhdt), FitYData(dhdt))
    IN  IF ~cf.ok
        THEN {[ok |-> FALSE, err |-> cf.err, parameters |-> parameters, dhdt |-> dhdt]}
        ELSE {[ok |-> TRUE, err |-> "", dhdt |-> dhdt,
               parameters |-> [parameters EXCEPT
                                 !.optimal = o.popt,
                                 !.stderr = <<SqrtOf(o.pcov[1]), SqrtOf(o.pcov[2])>>]]
              : o \in cf.outs}

\* ------------------------------------------------- Model: the recharge
\* Series(index=events_int.left, data=self.wt[events_int.left])
RawLeftHand(wt, events) ==
    [i \in DOMAIN events |-> [t |-> events[i].left, v |-> F(ValueAt(wt, events[i].left))]]

\* Step 3 of estimate_recharge: the elevation each rise is measured from.
LeftHand(attached, parameters, wt, events) ==
    IF attached THEN GetExtrapolated(parameters, wt, events)
    ELSE RawLeftHand(wt, events)

\* Series(index=events_int, data=wt[events_int.right].values - left_hand.values)
NetRises(wt, events, left_hand) ==
    [i \in DOMAIN events |->
        [iv |-> events[i], v |-> FSub(F(ValueAt(wt, events[i].right)), left_hand[i].v)]]

\* Mutation of PositiveRises: rises of zero are kept (>= 0).
NonNegativeRises(rises) == SelectSeq(rises, LAMBDA r : FLe(F(0), r.v))

\* rises[rises.values > 0]
PositiveRises(rises) == SelectSeq(rises, LAMBDA r : FLt(F(0), r.v))

\* recharge = rises * sy; recharge.index = rises.index.right
RechargeOf(rises, sy) ==
    [i \in DOMAIN rises |-> [t |-> rises[i].iv.right, v |-> FMul(rises[i].v, sy)]]

\* Mutation of ClipNegative: the clipping is left out.
ClipNegativeOmitted(recharge) == recharge

\* recharge[recharge < 0] = 0
ClipNegative(recharge) ==
    [i \in DOMAIN recharge |->
        [t |-> recharge[i].t,
         v |-> IF FLt(recharge[i].v, F(0)) THEN F(0) ELSE recharge[i].v]]

\* Model.__init__: parameters.loc["sy", "optimal"] = 0.1
SyInitialOptimal == Frac(1, 10)

\* ------------------------------------- wtf_py: the uncertainty estimator
\* rise_method(wt): the changes between consecutive samples that are
\* positive, on their intervals.
RiseMethod(wt) == SelectSeq(Changes(wt), LAMBDA c : c.v > 0)

\* The frequencies estimate_recharge accepts.
CoreFreqs == {"D", "H", "min", "s", "ms", "us", "ns"}

\* A value of sy_uncertainty: a float (v holds the one number), or a list of
\* floats.
UFloat(u) == [kind |-> "float", v |-> <<u>>]
UList(l) == [kind |-> "list", v |-> l]

\* Mutation of SyBounds: a single number is taken as an absolute deviation
\* (sy - u, sy + u), not as a fraction of sy.
SyBoundsAbsolute(sy, sy_uncertainty) ==
    IF sy_uncertainty.kind = "float"
    THEN <<FSub(sy, sy_uncertainty.v[1]), FAdd(sy, sy_uncertainty.v[1])>>
    ELSE <<sy_uncertainty.v[1], sy_uncertainty.v[2]>>

\* (sy_lower, sy_upper): sy -/+ sy_uncertainty * sy for a single number,
\* the two numbers of a list as they are.
SyBounds(sy, sy_uncertainty) ==
    IF sy_uncertainty.kind = "float"
    THEN <<FSub(sy, FMul(sy_uncertainty.v[1], sy)), FAdd(sy, FMul(sy_uncertainty.v[1], sy))>>
    ELSE <<sy_uncertainty.v[1], sy_uncertainty.v[2]>>

\* r = concat([sy * events, sy_lower * events, sy_upper * events], axis=1);
\* r.index = events.index.right; r.divide(dt, axis=0) with dt the days each
\* event spans (freq "D"): one row per event, three columns.
EventBands(events, sy, bounds) ==
    [i \in DOMAIN events |->
        LET dt == F(events[i].iv.right - events[i].iv.left)
        IN  [t     |-> events[i].iv.right,
             mean  |-> FDiv(FMul(sy, F(events[i].v)), dt),
             lower |-> FDiv(FMul(bounds[1], F(events[i].v)), dt),
             upper |-> FDiv(FMul(bounds[2], F(events[i].v)), dt)]]

\* .resample("D").bfill(): one row for every day from the first row's day to
\* the last row's, each day taking the row of the first event on or after it.
ResampleBfill(rows) ==
    IF rows = <<>> THEN <<>>
    ELSE LET first == rows[1].t
             last  == rows[Len(rows)].t
         IN  [k \in 1..(last - first + 1) |->
                LET d == first + k - 1
                    j == CHOOSE j \in DOMAIN rows :
                            /\ rows[j].t >= d
                            /\ \A i \in DOMAIN rows : rows[i].t >= d => rows[j].t <= rows[i].t
                IN  [rows[j] EXCEPT !.t = d]]

\* wtf_py.core.estimate_recharge(events, sy, sy_uncertainty, freq) for the
\* daily frequency: the checks in the order of the code, then the bands.
CoreEstimateRecharge(events, sy, sy_uncertainty, freq) ==
    IF events = <<>>
    THEN Raise("ValueError: The events are empty. Please provide a non-empty Pandas DataFrame.")
    ELSE IF FLt(sy, F(0)) \/ FLt(F(1), sy)
    THEN Raise("ValueError: The specific yield (sy) should be between 0 and 1.")
    ELSE IF sy_uncertainty.kind = "float"
            /\ (FLt(sy_uncertainty.v[1], F(0)) \/ FLt(F(1), sy_uncertainty.v[1]))
    THEN Raise("ValueError: If sy_uncertainty is a float, it should be between 0 and 1 (percentage).")
    ELSE IF sy_uncertainty.kind = "list" /\ Len(sy_uncertainty.v) # 2
    THEN Raise("ValueError: If sy_uncertainty is a list, it should contain two floats.")
    ELSE IF freq \notin CoreFreqs
    THEN Raise("ValueError: The frequency (freq) should be one of the following.")
    ELSE Ok(ResampleBfill(EventBands(events, sy, SyBounds(sy, sy_uncertainty))))

\* ------------------------------------------------------------------ state
VARIABLES
    wt,          \* Model.wt: the series, a sequence of [t, h]
    attached,    \* Model.mcr is not None
    parameters,  \* MCR.parameters: columns initial, optimal, stderr of (a, b)
    dhdt,        \* MCR.dhdt: None, or the fall rates of the last fit
    syOptimal,   \* Model.parameters.loc["sy", "optimal"]
    events,      \* Model.events: None, or the intervals last selected
    rises,       \* Model.rises: [has |-> the attribute exists, val |-> its value]
    ret,         \* the last call: its name, arguments and outcome
    fitted,      \* history: some fit has succeeded
    inflight     \* an MCR.fit_mcr call another thread is in: its position and locals

vars == <<wt, attached, parameters, dhdt, syOptimal, events, rises, ret, fitted, inflight>>

\* No MCR.fit_mcr call is under way in another thread.
Idle == [pc |-> "idle"]

Init ==
    /\ wt \in AllSeries
    /\ attached \in BOOLEAN
    /\ parameters = McrInitialParameters
    /\ dhdt = None
    /\ syOptimal = SyInitialOptimal
    /\ events = None
    /\ rises = [has |-> FALSE, val |-> <<>>]
    /\ ret = [op |-> "__init__", args |-> <<>>, ok |-> TRUE, err |-> "", val |-> None]
    /\ fitted = FALSE
    /\ inflight = Idle

\* An MCR object used on its own: no Model holds it.
InitMcr == Init /\ ~attached

Return(op, args, r) == [op |-> op, args |-> args, ok |-> r.ok, err |-> r.err, val |-> r.val]

\* Arguments a caller passes as tmin and tmax: None, or the timestamp of the
\* second sample (tmin) and of the last but one (tmax).
TminArgs == {None} \cup {<<wt[i].t>> : i \in {2} \cap DOMAIN wt}
TmaxArgs == {None} \cup {<<wt[i].t>> : i \in {Len(wt) - 1} \cap DOMAIN wt}

\* Model.get_recharge_event_intervals(self.wt, rise_rule)
GetRechargeEventIntervalsCall(rise_rule) ==
    LET r == GetRechargeEventIntervals(wt, rise_rule)
    IN  /\ events' = IF r.ok THEN r.val ELSE events
        /\ ret' = Return("get_recharge_event_intervals", [rise_rule |-> rise_rule], r)
        /\ UNCHANGED <<inflight, wt, attached, parameters, dhdt, syOptimal, rises, fitted>>

\* MCR.fit_mcr(wt) on the samples of the series between tmin and tmax.
McrFitMcrCall(tmin, tmax) ==
    \E o \in McrFitMcr(parameters, FitWindow(wt, tmin, tmax)) :
        /\ parameters' = o.parameters
        /\ dhdt' = o.dhdt
        /\ fitted' = (fitted \/ o.ok)
        /\ ret' = Return("mcr.fit_mcr", [tmin |-> tmin, tmax |-> tmax],
                         [ok |-> o.ok, err |-> o.err, val |-> None])
        /\ UNCHANGED <<inflight, wt, attached, syOptimal, events, rises>>

\* Model.fit_mcr(tmin, tmax)
FitMcrCall(tmin, tmax) ==
    IF ~attached
    THEN /\ ret' = Return("fit_mcr", [tmin |-> tmin, tmax |-> tmax],
                          Raise("ValueError: No MCR instance provided."))
         /\ UNCHANGED <<inflight, wt, attached, parameters, dhdt, syOptimal, events, rises, fitted>>
    ELSE \E o \in McrFitMcr(parameters, FitWindow(wt, tmin, tmax)) :
            /\ parameters' = o.parameters
            /\ dhdt' = o.dhdt
            /\ fitted' = (fitted \/ o.ok)
            /\ ret' = Return("fit_mcr", [tmin |-> tmin, tmax |-> tmax],
                             [ok |-> o.ok, err |-> o.err, val |-> None])
            /\ UNCHANGED <<inflight, wt, attached, syOptimal, events, rises>>

\* MCR.get_dhdt(wt)
GetDhdtCall ==
    /\ ret' = Return("get_dhdt", <<>>, Ok(GetDhdt(wt)))
    /\ UNCHANGED <<inflight, wt, attached, parameters, dhdt, syOptimal, events, rises, fitted>>

\* Arguments (a, b) a caller passes to estimate_dhdt: neither, one of them,
\* or both.
AbArgs == {<<None, None>>, <<F(1), None>>, <<None, F(1)>>, <<F(1), F(1)>>}

\* MCR.estimate_dhdt(h, a, b) for one elevation h
EstimateDhdtCall(h, a, b) ==
    /\ ret' = Return("estimate_dhdt", [h |-> h, a |-> a, b |-> b],
                     Ok(EstimateDhdt(parameters, F(h), a, b)))
    /\ UNCHANGED <<inflight, wt, attached, parameters, dhdt, syOptimal, events, rises, fitted>>

\* MCR.get_extrapolated(wt, events) on the intervals selected by rise_rule
GetExtrapolatedCall(rise_rule) ==
    LET sel == GetRechargeEventIntervals(wt, rise_rule)
    IN  /\ sel.ok
        /\ ret' = Return("get_extrapolated", [events |-> sel.val],
                         Ok(GetExtrapolated(parameters, wt, sel.val)))
        /\ UNCHANGED <<inflight, wt, attached, parameters, dhdt, syOptimal, events, rises, fitted>>

\* Mutation of FitStep: the fit is skipped once some fit has succeeded.
FitStepUnlessFitted(fit_mcr) ==
    IF fit_mcr /\ ~fitted THEN McrFitMcr(parameters, FitWindow(wt, None, None))
    ELSE {[ok |-> TRUE, err |-> "", parameters |-> parameters, dhdt |-> dhdt]}

\* Step 1 of estimate_recharge: self.fit_mcr() when fit_mcr is set, else
\* the MCR as it is.
FitStep(fit_mcr) ==
    IF fit_mcr THEN McrFitMcr(parameters, FitWindow(wt, None, None))
    ELSE {[ok |-> TRUE, err |-> "", parameters |-> parameters, dhdt |-> dhdt]}

\* Mutation of SyUsed: without an argument the value of __init__ is used,
\* not the stored one.
SyUsedInitial(sy) == IF sy = None THEN SyInitialOptimal ELSE sy

\* The specific yield estimate_recharge multiplies with: the argument, or the
\* stored optimal value when the argument is None.  (The test
\* `parameters.loc["sy", "optimal"] is nan` compares a value read from the
\* table with the nan object by identity and is never true.)
SyUsed(sy) == IF sy = None THEN syOptimal ELSE sy

\* Mutation of EstimateRechargeCall: the specific yield is stored before the
\* events are selected, so it is stored also when the selection raises.
EstimateRechargeCallYieldFirst(sy, fit_mcr, rise_rule) ==
    LET args == [sy |-> sy, fit_mcr |-> fit_mcr, rise_rule |-> rise_rule]
    IN  IF fit_mcr /\ ~attached
        THEN /\ ret' = Return("estimate_recharge", args,
                              Raise("ValueError: No MCR instance provided."))
             /\ UNCHANGED <<inflight, wt, attached, parameters, dhdt, syOptimal, events, rises, fitted>>
        ELSE \E o \in FitStep(fit_mcr) :
            LET sel       == GetRechargeEventIntervals(wt, rise_rule)
                left_hand == LeftHand(attached, o.parameters, wt, sel.val)
                net       == PositiveRises(NetRises(wt, sel.val, left_hand))
                recharge  == ClipNegative(RechargeOf(net, SyUsed(sy)))
            IN  /\ parameters' = o.parameters
                /\ dhdt' = o.dhdt
                /\ fitted' = (fitted \/ (fit_mcr /\ o.ok))
                /\ UNCHANGED <<inflight, wt, attached>>
                /\ IF ~o.ok
                   THEN /\ ret' = Return("estimate_recharge", args, Raise(o.err))
                        /\ UNCHANGED <<syOptimal, events, rises>>
                   ELSE IF ~sel.ok
                   THEN /\ ret' = Return("estimate_recharge", args, sel)
                        /\ syOptimal' = SyUsed(sy)
                        /\ UNCHANGED <<events, rises>>
                   ELSE /\ events' = sel.val
                        /\ rises' = [has |-> TRUE, val |-> net]
                        /\ syOptimal' = SyUsed(sy)
                        /\ ret' = Return("estimate_recharge", args, Ok(recharge))

\* Model.estimate_recharge(sy, fit_mcr, rise_rule)
EstimateRechargeCall(sy, fit_mcr, rise_rule) ==
    LET args == [sy |-> sy, fit_mcr |-> fit_mcr, rise_rule |-> rise_rule]
    IN  IF fit_mcr /\ ~attached
        THEN /\ ret' = Return("estimate_recharge", args,
                              Raise("ValueError: No MCR instance provided."))
             /\ UNCHANGED <<inflight, wt, attached, parameters, dhdt, syOptimal, events, rises, fitted>>
        ELSE \E o \in FitStep(fit_mcr) :
            LET sel       == GetRechargeEventIntervals(wt, rise_rule)
                left_hand == LeftHand(attached, o.parameters, wt, sel.val)
                net       == PositiveRises(NetRises(wt, sel.val, left_hand))
                recharge  == ClipNegative(RechargeOf(net, SyUsed(sy)))
            IN  /\ parameters' = o.parameters
                /\ dhdt' = o.dhdt
                /\ fitted' = (fitted \/ (fit_mcr /\ o.ok))
                /\ UNCHANGED <<inflight, wt, attached>>
                /\ IF ~o.ok
                   THEN /\ ret' = Return("estimate_recharge", args, Raise(o.err))
                        /\ UNCHANGED <<syOptimal, events, rises>>
                   ELSE IF ~sel.ok
                   THEN /\ ret' = Return("estimate_recharge", args, sel)
                        /\ UNCHANGED <<syOptimal, events, rises>>
                   ELSE /\ events' = sel.val
                        /\ rises' = [has |-> TRUE, val |-> net]
                        /\ syOptimal' = SyUsed(sy)
                        /\ ret' = Return("estimate_recharge", args, Ok(recharge))

\* Model.plot(): the rises panel reads self.rises when self.events is set
\* (the attribute does not exist before the first estimate_recharge), and the
\* recharge panel calls self.estimate_recharge() with its default arguments
\* (sy=None, fit_mcr=False, rise_rule="rises"), which selects the events and
\* stores events and rises again.
PlotCall ==
    LET sel       == GetRechargeEventIntervals(wt, "rises")
        left_hand == LeftHand(attached, parameters, wt, sel.val)
        net       == PositiveRises(NetRises(wt, sel.val, left_hand))
    IN  /\ UNCHANGED <<inflight, wt, attached, parameters, dhdt, syOptimal, fitted>>
        /\ IF events = None
           THEN /\ ret' = Return("plot", <<>>, Ok(None))
                /\ UNCHANGED <<events, rises>>
           ELSE IF ~rises.has
           THEN /\ ret' = Return("plot", <<>>,
                                 Raise("AttributeError: 'Model' object has no attribute 'rises'"))
                /\ UNCHANGED <<events, rises>>
           ELSE IF ~sel.ok
           THEN /\ ret' = Return("plot", <<>>, sel)
                /\ UNCHANGED <<events, rises>>
           ELSE /\ events' = sel.val
                /\ rises' = [has |-> TRUE, val |-> net]
                /\ ret' = Return("plot", <<>>, Ok(None))

\* MCR.fit_mcr(wt) run by a thread of its own, statement by statement; the
\* steps of other threads come in between.  First dhdt = self.get_dhdt(wt)
\* and self.dhdt = dhdt; `before` keeps the parameter table the call found.
FitRatesStep(tmin, tmax) ==
    /\ inflight = Idle
    /\ dhdt' = GetDhdt(FitWindow(wt, tmin, tmax))
    /\ inflight' = [pc |-> "curve_fit", tmin |-> tmin, tmax |-> tmax, before |-> parameters]
    /\ UNCHANGED <<wt, attached, parameters, syOptimal, events, rises, ret, fitted>>

\* popt, pcov = curve_fit(...) and self.parameters.optimal = popt; the call
\* ends here when curve_fit raises.
FitOptimalStep ==
    /\ inflight.pc = "curve_fit"
    /\ LET w  == FitWindow(wt, inflight.tmin, inflight.tmax)
           d  == GetDhdt(w)
           cf == CurveFit(FitXData(w, d), FitYData(d))
           args == [tmin |-> inflight.tmin, tmax |-> inflight.tmax]
       IN  IF ~cf.ok
           THEN /\ ret' = Return("mcr.fit_mcr", args, Raise(cf.err))
                /\ inflight' = Idle
                /\ UNCHANGED parameters
           ELSE \E o \in cf.outs :
                /\ parameters' = WriteOptimal(parameters, o.popt, o.pcov)
                /\ inflight' = [pc |-> "stderr", tmin |-> inflight.tmin,
                                tmax |-> inflight.tmax, before |-> inflight.before,
                                popt |-> o.popt, pcov |-> o.pcov]
                /\ UNCHANGED ret
    /\ UNCHANGED <<wt, attached, dhdt, syOptimal, events, rises, fitted>>

\* self.parameters.stderr = pcov.diagonal() ** 0.5, and the call returns.
FitStderrStep ==
    /\ inflight.pc = "stderr"
    /\ parameters' = WriteStderr(parameters, inflight.popt, inflight.pcov)
    /\ fitted' = TRUE
    /\ ret' = Return("mcr.fit_mcr", [tmin |-> inflight.tmin, tmax |-> inflight.tmax], Ok(None))
    /\ inflight' = Idle
    /\ UNCHANGED <<wt, attached, dhdt, syOptimal, events, rises>>

\* A thread reads the parameter table (mcr.parameters), at any time.
ParametersRead ==
    /\ ret' = Return("parameters", <<>>, Ok(parameters))
    /\ UNCHANGED <<inflight, wt, attached, parameters, dhdt, syOptimal, events, rises, fitted>>

\* sy_uncertainty=0.05, the default.
DefaultUncertainty == UFloat(Frac(1, 20))

\* Values of sy_uncertainty a caller passes: the default 0.05, a number
\* above 1, a (lower, upper) pair around 0.5, a pair in the wrong order and
\* a list of one number.
UncertaintyArgs ==
    {DefaultUncertainty, UFloat(Frac(3, 2)),
     UList(<<Frac(2, 5), Frac(3, 5)>>), UList(<<Frac(3, 5), Frac(2, 5)>>),
     UList(<<Frac(1, 2)>>)}

\* Frequencies a caller passes: the default, and one that is not accepted.
FreqArgs == {"D", "M"}

\* Event tables a caller passes: the rises rise_method extracts from the
\* series, or every change of the series (rises <= 0 included).
EventArgs == {RiseMethod(wt), Changes(wt)}

\* wtf_py.core.estimate_recharge(events, sy, sy_uncertainty, freq)
CoreEstimateRechargeCall(ev, sy, sy_uncertainty, freq) ==
    /\ ret' = Return("core.estimate_recharge",
                     [events |-> ev, sy |-> sy, sy_uncertainty |-> sy_uncertainty,
                      freq |-> freq],
                     CoreEstimateRecharge(ev, sy, sy_uncertainty, freq))
    /\ UNCHANGED <<inflight, wt, attached, parameters, dhdt, syOptimal, events, rises, fitted>>

\* The (sy, sy_uncertainty, freq) a caller passes: each argument takes each
\* of its values while the other two are sy=0.5, the default uncertainty and
\* the daily frequency.
CoreArgs ==
    {<<sy, DefaultUncertainty, "D">> : sy \in SyValues}
        \cup {<<Frac(1, 2), u, "D">> : u \in UncertaintyArgs}
        \cup {<<Frac(1, 2), DefaultUncertainty, freq>> : freq \in FreqArgs}

\* The calls of the uncertainty estimator.
NextCore ==
    \E ev \in EventArgs, a \in CoreArgs : CoreEstimateRechargeCall(ev, a[1], a[2], a[3])

\* The calls on the event selection alone.
NextEvents == \E rule \in RiseRules : GetRechargeEventIntervalsCall(rule)

\* Elevations a caller passes to estimate_dhdt: the first and the last one of
\* the series.
Elevations == {wt[1].h, wt[Len(wt)].h}

\* The calls that read the fall rates alone.
NextRates == GetDhdtCall

\* The calls on the MCR object.
NextMcr ==
    \/ \E tmin \in TminArgs, tmax \in TmaxArgs : McrFitMcrCall(tmin, tmax)
    \/ \E h \in Elevations, ab \in AbArgs : EstimateDhdtCall(h, ab[1], ab[2])
    \/ \E rule \in RiseRules : GetExtrapolatedCall(rule)

\* The calls on the Model object.
NextModel ==
    \/ \E rule \in RiseRules : GetRechargeEventIntervalsCall(rule)
    \/ \E sy \in SyValues \cup {None}, fit \in BOOLEAN, rule \in RiseRules :
            EstimateRechargeCall(sy, fit, rule)
    \/ \E tmin \in TminArgs, tmax \in TmaxArgs : FitMcrCall(tmin, tmax)

\* The calls around a plot: the event selection, estimate_recharge with the
\* MCR as it is, and the plot.
NextPlot ==
    \/ \E rule \in RiseRules : GetRechargeEventIntervalsCall(rule)
    \/ \E sy \in {None, Frac(1, 2)}, rule \in RiseRules : EstimateRechargeCall(sy, FALSE, rule)
    \/ PlotCall

\* A fit in one thread and a reader of the parameter table in another.
NextFit ==
    \/ \E tmin \in TminArgs, tmax \in TmaxArgs : FitRatesStep(tmin, tmax)
    \/ FitOptimalStep
    \/ FitStderrStep
    \/ ParametersRead

Next == NextModel \/ NextMcr \/ NextRates \/ NextPlot \/ NextFit \/ NextCore

Spec == Init /\ [][Next]_vars
SpecEvents == Init /\ [][NextEvents]_vars
SpecRates == InitMcr /\ [][NextRates]_vars
SpecMcr == InitMcr /\ [][NextMcr]_vars
SpecModel == Init /\ [][NextModel]_vars

\* Values of (a, b) a caller assigns to the `optimal` column of the MCR's
\* parameter table before the MCR is handed to a Model: a rate that is
\* positive at low elevations, and a recession (negative) rate.
PresetOptimal == {<<Frac(1, 10), Frac(1, 5)>>, <<Frac(1, 2), Frac(-1, 2)>>}

\* A Model without an MCR, or one holding an MCR whose optimal (a, b) the
\* caller has assigned.
InitRises ==
    /\ wt \in AllSeries
    /\ attached \in BOOLEAN
    /\ parameters \in IF attached
                      THEN {[McrInitialParameters EXCEPT !.optimal = ab] : ab \in PresetOptimal}
                      ELSE {McrInitialParameters}
    /\ dhdt = None
    /\ syOptimal = SyInitialOptimal
    /\ events = None
    /\ rises = [has |-> FALSE, val |-> <<>>]
    /\ ret = [op |-> "__init__", args |-> <<>>, ok |-> TRUE, err |-> "", val |-> None]
    /\ fitted = FALSE
    /\ inflight = Idle

\* The calls of estimate_recharge that use the MCR as it is.
NextRises == \E rule \in RiseRules : EstimateRechargeCall(None, FALSE, rule)

SpecRises == InitRises /\ [][NextRises]_vars

SpecPlot == InitRises /\ [][NextPlot]_vars
SpecFit == InitMcr /\ [][NextFit]_vars
SpecCore == InitMcr /\ [][NextCore]_vars

\* ================================================================ claims
StrictlyDecreasing(w) == \A i \in 1..(Len(w) - 1) : w[i + 1].h < w[i].h
StrictlyIncreasing(w) == \A i \in 1..(Len(w) - 1) : w[i + 1].h > w[i].h

\* The net rises of the intervals estimate_recharge selects under rise_rule
\* in the current state, before the positive ones are kept.
NetRisesNow(rise_rule) ==
    LET sel == GetRechargeEventIntervals(wt, rise_rule)
    IN  NetRises(wt, sel.val, LeftHand(attached, parameters, wt, sel.val))

\* C1: every value of the recharge series returned by estimate_recharge is
\* greater than or equal to zero, whatever the series, the specific yield
\* (negative ones included), the rise rule and the recession model.
C1_RechargeNonNegative ==
    (ret.op = "estimate_recharge" /\ ret.ok) =>
        \A i \in DOMAIN ret.val : FLe(F(0), ret.val[i].v)

\* A recharge series with entries, returned with a recession model attached
\* and asked for with a negative specific yield: the products are negative
\* before the clipping.
C1_Witness ==
    /\ ret.op = "estimate_recharge" /\ ret.ok
    /\ ret.val # <<>>
    /\ attached
    /\ ret.args.sy = Frac(-1, 10)

\* C2: when estimate_recharge selects at least one interval and no net rise
\* is positive, the call fails instead of returning a series.
C2_NoPositiveRiseFails ==
    (/\ ret.op = "estimate_recharge"
     /\ ret.args.rise_rule \in {"rises", "both"}
     /\ ~(ret.args.fit_mcr /\ ~attached)
     /\ GetRechargeEventIntervals(wt, ret.args.rise_rule).ok
     /\ \A i \in DOMAIN NetRisesNow(ret.args.rise_rule) :
            FLe(NetRisesNow(ret.args.rise_rule)[i].v, F(0)))
    => ~ret.ok

\* C3: on a strictly decreasing series of N >= 2 samples the rule 'rises'
\* finds no interval and raises ValueError, and the rule 'both' returns N - 1
\* intervals without error.
C3_DecreasingSeries ==
    (Len(wt) >= 2 /\ StrictlyDecreasing(wt) /\ ret.op = "get_recharge_event_intervals") =>
        /\ ret.args.rise_rule = "rises" =>
              /\ RisingIntervals(Changes(wt)) = <<>>
              /\ ~ret.ok
              /\ ret.err = "ValueError: No recharge events found."
        /\ ret.args.rise_rule = "both" =>
              /\ ret.ok
              /\ Len(ret.val) = Len(wt) - 1

\* The rule 'rises' has raised on a strictly decreasing series of 3 samples.
C3_Witness ==
    /\ Len(wt) = 3 /\ StrictlyDecreasing(wt)
    /\ ret.op = "get_recharge_event_intervals"
    /\ ret.args.rise_rule = "rises"
    /\ ~ret.ok

\* C4: for a series of at least 2 samples the rule 'both' returns exactly
\* len(series) - 1 intervals, the i-th one spans the consecutive timestamps
\* (t[i-1], t[i]] and carries the change series[i] - series[i-1]; none spans
\* more than one sampling step.
C4_ChangeIntervals ==
    (Len(wt) >= 2 /\ ret.op = "get_recharge_event_intervals" /\ ret.args.rise_rule = "both") =>
        /\ ret.ok
        /\ Len(ret.val) = Len(wt) - 1
        /\ Len(Changes(wt)) = Len(wt) - 1
        /\ \A i \in 1..(Len(wt) - 1) :
              /\ ret.val[i] = [left |-> wt[i].t, right |-> wt[i + 1].t]
              /\ Changes(wt)[i].iv = ret.val[i]
              /\ Changes(wt)[i].v = wt[i + 1].h - wt[i].h

\* The rule 'both' has returned the intervals of a series of 3 samples whose
\* sampling steps differ.
C4_Witness ==
    /\ Len(wt) = 3
    /\ wt[2].t - wt[1].t # wt[3].t - wt[2].t
    /\ ret.op = "get_recharge_event_intervals"
    /\ ret.args.rise_rule = "both"
    /\ ret.ok

\* C5: get_dhdt keeps exactly the consecutive-sample steps that fall: every
\* entry it returns belongs to a step whose change is strictly negative, and
\* every step it leaves out has a change >= 0.
C5_FallRatesPartition ==
    ret.op = "get_dhdt" =>
        /\ \A k \in DOMAIN ret.val :
              \E i \in 1..(Len(wt) - 1) :
                  /\ ret.val[k].t = wt[i + 1].t
                  /\ wt[i + 1].h - wt[i].h < 0
        /\ \A i \in 1..(Len(wt) - 1) :
              (\A k \in DOMAIN ret.val : ret.val[k].t # wt[i + 1].t)
                  => wt[i + 1].h - wt[i].h >= 0

\* get_dhdt has kept a falling step and left out a step without change.
C5_Witness ==
    /\ ret.op = "get_dhdt"
    /\ ret.val # <<>>
    /\ \E i \in 1..(Len(wt) - 1) : wt[i + 1].h = wt[i].h

\* C6 as stated: whenever both selections succeed, the intervals of the rule
\* 'rises' are a strict subset of the intervals of the rule 'both'.
C6_RisesStrictSubset ==
    (/\ ret.op = "get_recharge_event_intervals"
     /\ ret.args.rise_rule = "rises"
     /\ ret.ok
     /\ GetRechargeEventIntervals(wt, "both").ok)
    => /\ Range(ret.val) \subseteq Range(GetRechargeEventIntervals(wt, "both").val)
       /\ Range(ret.val) # Range(GetRechargeEventIntervals(wt, "both").val)

\* C6 amended: whenever both selections succeed, every interval of the rule
\* 'rises' is an interval of the rule 'both', and the two selections are
\* equal exactly when every consecutive change is positive (otherwise the
\* subset is strict).
C6_RisesSubset ==
    (/\ ret.op = "get_recharge_event_intervals"
     /\ ret.args.rise_rule = "rises"
     /\ ret.ok
     /\ GetRechargeEventIntervals(wt, "both").ok)
    => /\ Range(ret.val) \subseteq Range(GetRechargeEventIntervals(wt, "both").val)
       /\ (Range(ret.val) = Range(GetRechargeEventIntervals(wt, "both").val))
              <=> StrictlyIncreasing(wt)

\* The rule 'rises' has returned, on a series of 3 samples, every interval
\* the rule 'both' returns.
C6_Witness ==
    /\ Len(wt) = 3
    /\ ret.op = "get_recharge_event_intervals"
    /\ ret.args.rise_rule = "rises"
    /\ ret.ok
    /\ Range(ret.val) = Range(GetRechargeEventIntervals(wt, "both").val)

\* C7: on a strictly increasing series of N samples, without a recession
\* model, the rule 'rises' selects N - 1 intervals and estimate_recharge
\* returns N - 1 values, one at each right-endpoint timestamp, each equal to
\* the specific yield times (series[i] - series[i-1]).
C7_IncreasingSeries ==
    (/\ Len(wt) >= 2 /\ StrictlyIncreasing(wt)
     /\ ~attached
     /\ ret.op = "estimate_recharge"
     /\ ret.args.rise_rule = "rises"
     /\ ~ret.args.fit_mcr)
    => /\ ret.ok
       /\ Len(events) = Len(wt) - 1
       /\ Len(ret.val) = Len(wt) - 1
       /\ \A i \in 1..(Len(wt) - 1) :
             /\ ret.val[i].t = wt[i + 1].t
             /\ ret.val[i].v = FMul(syOptimal, F(wt[i + 1].h - wt[i].h))

\* The part of C7 the code satisfies: the same statement for a specific yield
\* that is not negative.
C7_IncreasingSeriesNonNegativeYield ==
    (ret.op = "estimate_recharge" /\ FLe(F(0), syOptimal)) => C7_IncreasingSeries

\* C8: on a recession model that has never been fitted, estimate_dhdt called
\* without a and b, and get_extrapolated, fail with an error.
C8_UnfittedFails ==
    (/\ ~fitted
     /\ \/ ret.op = "get_extrapolated"
        \/ (ret.op = "estimate_dhdt" /\ ret.args.a = None /\ ret.args.b = None))
    => ~ret.ok

\* The per-event recharge of the rises the last estimate_recharge call kept.
EventRecharge == ClipNegative(RechargeOf(rises.val, syOptimal))

\* C9: the series estimate_recharge returns is uniformly spaced at the daily
\* frequency: every day from the first to the last event timestamp has
\* exactly one value, and a day without an event of its own carries the value
\* of the next later event.
C9_DailyBackfilled ==
    (ret.op = "estimate_recharge" /\ ret.ok /\ ret.val # <<>>) =>
        LET first == ret.val[1].t
            last  == ret.val[Len(ret.val)].t
        IN  /\ Len(ret.val) = last - first + 1
            /\ \A d \in first..last :
                  /\ ret.val[d - first + 1].t = d
                  /\ \E k \in DOMAIN EventRecharge :
                        /\ EventRecharge[k].t >= d
                        /\ \A j \in DOMAIN EventRecharge :
                              EventRecharge[j].t >= d => EventRecharge[k].t <= EventRecharge[j].t
                        /\ ret.val[d - first + 1].v = EventRecharge[k].v

\* C10: after a successful fit, estimate_dhdt(h) without parameters returns
\* the value estimate_dhdt(h, a, b) returns for the stored optimal (a, b),
\* which is -a * h + b, for every elevation h.
C10_DefaultsAreFitted ==
    (/\ fitted
     /\ ret.op = "estimate_dhdt"
     /\ ret.args.a = None /\ ret.args.b = None)
    => /\ ret.ok
       /\ ret.val = EstimateDhdt(parameters, F(ret.args.h),
                                 parameters.optimal[1], parameters.optimal[2])
       /\ ret.val = FAdd(FMul(FNeg(parameters.optimal[1]), F(ret.args.h)),
                         parameters.optimal[2])

\* estimate_dhdt has been called without parameters after a fit whose
\* optimal (a, b) give a rate other than zero.
C10_Witness ==
    /\ fitted
    /\ ret.op = "estimate_dhdt"
    /\ ret.args.a = None /\ ret.args.b = None
    /\ ret.val # F(0)
    /\ parameters.optimal[1] # F(0)

\* C11: a fit on a window with fewer than 2 falling observations raises, and
\* the parameter table (optimal and stderr) after the call is the one before
\* the call: nothing is substituted for the failed fit.
C11_FailedFitKeepsParameters ==
    [][(/\ ret'.op = "mcr.fit_mcr"
        /\ Len(GetDhdt(FitWindow(wt, ret'.args.tmin, ret'.args.tmax))) < NParam)
       => (/\ ~ret'.ok
           /\ parameters'.optimal = parameters.optimal
           /\ parameters'.stderr = parameters.stderr)]_vars

\* A fit has raised on a window with fewer than 2 falling observations after
\* an earlier fit had stored parameters other than the zeros of __init__.
C11_Witness ==
    /\ ret.op = "mcr.fit_mcr" /\ ~ret.ok
    /\ Len(GetDhdt(FitWindow(wt, ret.args.tmin, ret.args.tmax))) < NParam
    /\ fitted
    /\ parameters.optimal # McrInitialParameters.optimal

\* C12: a series of exactly one sample has no change interval, and
\* get_recharge_event_intervals on it raises the 'no events' ValueError under
\* the rule 'rises' and under the rule 'both'; no empty result is returned
\* or stored.
C12_SingleSampleFails ==
    (/\ Len(wt) = 1
     /\ ret.op = "get_recharge_event_intervals"
     /\ ret.args.rise_rule \in {"rises", "both"})
    => /\ Changes(wt) = <<>>
       /\ ~ret.ok
       /\ ret.err = "ValueError: No recharge events found."
       /\ events = None

\* The rule 'both' has raised on a series of one sample.
C12_Witness ==
    /\ Len(wt) = 1
    /\ ret.op = "get_recharge_event_intervals"
    /\ ret.args.rise_rule = "both"
    /\ ~ret.ok

C14_UnknownRuleFails ==
    [][(/\ ret'.op = "get_recharge_event_intervals"
        /\ ret'.args.rise_rule \notin {"rises", "both"})
       => (/\ ~ret'.ok
           /\ ret'.err = "ValueError: rise_rule should be 'both' or 'rises'."
           /\ events' = events)]_vars

\* An unknown rule has raised after an earlier call had stored events.
C14_Witness ==
    /\ ret.op = "get_recharge_event_intervals"
    /\ ret.args.rise_rule \notin {"rises", "both"}
    /\ ~ret.ok
    /\ events # None

\* The MCR after the step is what a fit over the full series leaves.
FullSeriesFitDone ==
    \E o \in McrFitMcr(parameters, wt) :
        /\ parameters' = o.parameters
        /\ dhdt' = o.dhdt
        /\ ~o.ok => (~ret'.ok /\ ret'.err = o.err)

\* The rises stored by the step are measured from the elevations
\* extrapolated with the (a, b) the step leaves in the MCR.
RisesFromStoredParameters ==
    rises'.val = PositiveRises(NetRises(wt, events',
                                        GetExtrapolated(parameters', wt, events')))

\* C15 as stated: estimate_recharge called with the fit requested fits over
\* the full series if and only if no fit has succeeded before (an MCR that is
\* already fitted is left as it is), and the left-hand elevations of the call
\* come from the (a, b) stored after that step.
C15_FitIffNotFitted ==
    [][(ret'.op = "estimate_recharge" /\ ret'.args.fit_mcr /\ attached)
       => (/\ ~fitted => FullSeriesFitDone
           /\ fitted => (parameters' = parameters /\ dhdt' = dhdt)
           /\ ret'.ok => RisesFromStoredParameters)]_vars

\* C15 amended: estimate_recharge called with the fit requested fits over
\* the full series on every such call, whether or not a fit has succeeded
\* before; the fit completes before the event selection and the
\* extrapolation, so the left-hand elevations of the call come from the
\* newly fitted (a, b).  Without the request no fit is performed.
C15_FitWheneverRequested ==
    [][(ret'.op = "estimate_recharge" /\ attached)
       => (/\ ret'.args.fit_mcr => FullSeriesFitDone
           /\ ~ret'.args.fit_mcr => (parameters' = parameters /\ dhdt' = dhdt)
           /\ ret'.ok => RisesFromStoredParameters)]_vars

\* estimate_recharge has fitted and returned rises measured from elevations
\* that the fitted (a, b) move away from the raw ones.
C15_Witness ==
    /\ ret.op = "estimate_recharge" /\ ret.args.fit_mcr /\ attached
    /\ ret.ok
    /\ fitted
    /\ parameters.optimal[1] # F(0)
    /\ rises.val # <<>>
    /\ rises.val # PositiveRises(NetRises(wt, events, RawLeftHand(wt, events)))

\* The elevation the rise over the interval iv is measured from: the raw
\* elevation at the left endpoint without an MCR, and with one that elevation
\* plus the modelled rate -a * h + b taken once.
LeftHandOf(iv) ==
    LET h == F(ValueAt(wt, iv.left))
        a == parameters.optimal[1]
        b == parameters.optimal[2]
    IN  IF attached THEN FAdd(h, FSub(b, FMul(a, h))) ELSE h

NetRiseOf(iv) == FSub(F(ValueAt(wt, iv.right)), LeftHandOf(iv))

\* C16: after estimate_recharge the stored rises are, for each selected
\* interval, elevation[right] - left_hand (left_hand raw without an MCR,
\* h_left + (-a * h_left + b) with one, not multiplied by the elapsed days);
\* the intervals whose net rise is <= 0 are absent (no zero entries stand in
\* for them), the others are all present, in the order of the events.
C16_NetRises ==
    (ret.op = "estimate_recharge" /\ ret.ok) =>
        /\ \A k \in DOMAIN rises.val :
              /\ rises.val[k].iv \in Range(events)
              /\ rises.val[k].v = NetRiseOf(rises.val[k].iv)
              /\ FLt(F(0), rises.val[k].v)
        /\ \A i \in DOMAIN events :
              FLt(F(0), NetRiseOf(events[i]))
                  <=> \E k \in DOMAIN rises.val : rises.val[k].iv = events[i]
        /\ \A k1, k2 \in DOMAIN rises.val :
              k1 < k2 => rises.val[k1].iv.right < rises.val[k2].iv.right
        /\ Len(ret.val) = Len(rises.val)

\* estimate_recharge has, with an MCR whose rate is not zero, kept the rise
\* of an interval spanning more than one day and discarded another interval.
C16_Witness ==
    /\ ret.op = "estimate_recharge" /\ ret.ok
    /\ attached
    /\ Len(rises.val) < Len(events)
    /\ \E k \in DOMAIN rises.val :
          /\ rises.val[k].iv.right - rises.val[k].iv.left > 1
          /\ LeftHandOf(rises.val[k].iv) # F(ValueAt(wt, rises.val[k].iv.left))

\* The recharge series the call just made returns on a model nothing has
\* been called on before: the rises measured with the (a, b) the call leaves,
\* times the argument sy or, without one, the specific yield of __init__.
FreshRecharge ==
    LET ev == GetRechargeEventIntervals(wt, ret'.args.rise_rule).val
        sy == IF ret'.args.sy = None THEN SyInitialOptimal ELSE ret'.args.sy
    IN  ClipNegative(RechargeOf(PositiveRises(NetRises(wt, ev,
                        LeftHand(attached, parameters', wt, ev))), sy))

\* C17 as stated: no call changes the model's stored events, rises or
\* specific yield (only the MCR's fitted parameters change), and an
\* estimate_recharge call returns what the same call returns on a model no
\* call was made on, whatever calls came before.
C17_CallsIndependent ==
    [][/\ events' = events
       /\ rises' = rises
       /\ syOptimal' = syOptimal
       /\ (ret'.op = "estimate_recharge" /\ ret'.ok) => ret'.val = FreshRecharge]_vars

\* C17 amended: a successful estimate_recharge call replaces the stored
\* events, the stored rises and the stored specific yield; what it returns
\* does not depend on the events and rises stored before, but without an
\* argument sy it uses the specific yield stored by the latest call that
\* passed one (the value of __init__ at first).  With sy passed, the result
\* is determined by the arguments, the series and the MCR's parameters.
C17_CallsDependOnStoredYield ==
    [][(ret'.op = "estimate_recharge" /\ ret'.ok) =>
          /\ syOptimal' = IF ret'.args.sy = None THEN syOptimal ELSE ret'.args.sy
          /\ events' = GetRechargeEventIntervals(wt, ret'.args.rise_rule).val
          /\ rises'.val = PositiveRises(NetRises(wt, events',
                                LeftHand(attached, parameters', wt, events')))
          /\ ret'.val = ClipNegative(RechargeOf(rises'.val, syOptimal'))]_vars

\* estimate_recharge called without sy has returned values computed with a
\* specific yield other than the one of __init__, stored by an earlier call.
C17_Witness ==
    /\ ret.op = "estimate_recharge" /\ ret.ok
    /\ ret.args.sy = None
    /\ syOptimal = Frac(1, 2)
    /\ ret.val # <<>>
    /\ ret.val[1].v = FMul(rises.val[1].v, Frac(1, 2))

\* C18: Model.plot only reads the stored events, rises and parameters: after
\* the plot the stored events, rises and specific yield are the ones the
\* last estimate_recharge call left, also when that call used the rule
\* 'both'.
C18_PlotReadsOnly ==
    [][ret'.op = "plot"
       => (events' = events /\ rises' = rises /\ syOptimal' = syOptimal)]_vars

\* C19: fit_mcr writes the optimal (a, b) and the standard errors in two
\* steps: between them the parameter table holds the new optimal values
\* together with the standard errors the call found (those of the previous
\* fit, or the zeros of __init__), and a thread reading the table then sees
\* that pair.
C19_FitWritesInTwoSteps ==
    inflight.pc = "stderr" =>
        /\ parameters.optimal = inflight.popt
        /\ parameters.stderr = inflight.before.stderr

\* A reader has read the table between the two writes of a fit that follows
\* an earlier fit: the optimal values are the new ones, not the ones the call
\* found, and the standard errors are not the ones of this fit.
C19_Witness ==
    /\ inflight.pc = "stderr"
    /\ ret.op = "parameters"
    /\ ret.val = parameters
    /\ ret.val.optimal = inflight.popt
    /\ ret.val.optimal # inflight.before.optimal
    /\ ret.val.stderr # <<SqrtOf(inflight.pcov[1]), SqrtOf(inflight.pcov[2])>>

\* The event whose row the bucket of day d carries: the first one whose
\* right endpoint is on or after d.
BucketEvent(ev, d) ==
    CHOOSE j \in DOMAIN ev :
        /\ ev[j].iv.right >= d
        /\ \A i \in DOMAIN ev : ev[i].iv.right >= d => ev[j].iv.right <= ev[i].iv.right

\* C20: the uncertainty estimator returns three parallel series mean, lower
\* and upper: each bucket carries, for the same event, that event's rise per
\* day times sy, sy_lower and sy_upper, where a single number u gives
\* sy_lower = sy - u * sy and sy_upper = sy + u * sy and a pair gives the two
\* directly; when no rise is negative and sy_lower <= sy <= sy_upper, then
\* lower <= mean <= upper in every bucket.
C20_UncertaintyBands ==
    (ret.op = "core.estimate_recharge" /\ ret.ok) =>
        LET ev == ret.args.events
            sy == ret.args.sy
            u  == ret.args.sy_uncertainty
            lo == IF u.kind = "float" THEN FSub(sy, FMul(u.v[1], sy)) ELSE u.v[1]
            hi == IF u.kind = "float" THEN FAdd(sy, FMul(u.v[1], sy)) ELSE u.v[2]
            rate(j) == Frac(ev[j].v, ev[j].iv.right - ev[j].iv.left)
        IN  /\ \A k \in DOMAIN ret.val :
                  LET j == BucketEvent(ev, ret.val[k].t)
                  IN  /\ ret.val[k].mean = FMul(sy, rate(j))
                      /\ ret.val[k].lower = FMul(lo, rate(j))
                      /\ ret.val[k].upper = FMul(hi, rate(j))
            /\ \A j \in DOMAIN ev : \E k \in DOMAIN ret.val : ret.val[k].t = ev[j].iv.right
            /\ ((\A j \in DOMAIN ev : ev[j].v >= 0) /\ FLe(lo, sy) /\ FLe(sy, hi))
                  => \A k \in DOMAIN ret.val :
                        /\ FLe(ret.val[k].lower, ret.val[k].mean)
                        /\ FLe(ret.val[k].mean, ret.val[k].upper)

\* The estimator has returned, for a single number u, bands that differ in a
\* bucket filled from a later event.
C20_Witness ==
    /\ ret.op = "core.estimate_recharge" /\ ret.ok
    /\ ret.args.sy_uncertainty.kind = "float"
    /\ \A j \in DOMAIN ret.args.events : ret.args.events[j].v >= 0
    /\ \E k \in DOMAIN ret.val :
          /\ \A j \in DOMAIN ret.args.events : ret.args.events[j].iv.right # ret.val[k].t
          /\ FLt(ret.val[k].lower, ret.val[k].mean)
          /\ FLt(ret.val[k].mean, ret.val[k].upper)

C22_NoEventsKeepsState ==
    [][(/\ ret'.op = "estimate_recharge"
        /\ ~ret'.ok
        /\ ret'.err = "ValueError: No recharge events found.")
       => (/\ events' = events
           /\ rises' = rises
           /\ syOptimal' = syOptimal)]_vars

\* estimate_recharge(sy=0.5) has raised for want of events on a model that
\* holds events and rises of an earlier call and another specific yield.
C22_Witness ==
    /\ ret.op = "estimate_recharge" /\ ~ret.ok
    /\ ret.err = "ValueError: No recharge events found."
    /\ ret.args.sy = Frac(1, 2)
    /\ syOptimal # Frac(1, 2)
    /\ events # None
    /\ rises.has

\* C23: estimate_dhdt uses the caller's parameters only when both a and b
\* are given; when exactly one is given it is ignored and the result is
\* -a * h + b for the stored optimal a and b.
C23_OneParameterIgnored ==
    ret.op = "estimate_dhdt" =>
        LET h == F(ret.args.h)
            stored == FSub(parameters.optimal[2], FMul(parameters.optimal[1], h))
        IN  /\ ((ret.args.a = None) # (ret.args.b = None)) => ret.val = stored
            /\ (ret.args.a # None /\ ret.args.b # None)
                  => ret.val = FSub(ret.args.b, FMul(ret.args.a, h))

\* estimate_dhdt has been called with a alone after a fit, and what it
\* returned is not what the supplied a gives with the stored b.
C23_Witness ==
    /\ ret.op = "estimate_dhdt"
    /\ ret.args.a # None /\ ret.args.b = None
    /\ fitted
    /\ ret.val # FSub(parameters.optimal[2], FMul(ret.args.a, F(ret.args.h)))

====
